---- MODULE Spec2Model ----
(***************************************************************************)
(* A model of the image tasks of lightning-flash: the pretrained-weight     *)
(* fallback decorator and the backbone registries (flash/image/backbones.py,*)
(* flash/image/classification/backbones.py), the FiftyOne object-detection  *)
(* data source (flash/image/detection/data.py), the paths data source and   *)
(* default transforms of image classification (classification/data.py,     *)
(* classification/transforms.py) and the steps of ImageClassifier          *)
(* (classification/model.py).                                              *)
(*                                                                         *)
(* Seven specifications share the module:                                  *)
(*   SpecWrapper   one call of catch_url_error(fn), step by step;          *)
(*   SpecBBox      the pure function _reformat_bbox on a grid of inputs;   *)
(*   SpecLoad      load_data on collections built entry by entry;          *)
(*   SpecSample    one sample through load_sample, the default transforms  *)
(*                 and a step of ImageClassifier;                          *)
(*   SpecPaths     load_data of the paths source on trees of class folders;*)
(*   SpecRegistry  the registration loops run at import, then lookups;     *)
(*   SpecFrom      one call of ObjectDetectionData.from_coco, from_voc or  *)
(*                 from_via.                                               *)
(*                                                                         *)
(* Numbers.  The source computes boxes in floating point.  The model keeps *)
(* exact rationals: a normalized coordinate is an integer numerator over   *)
(* the denominator GridDen, an absolute coordinate is a numerator over     *)
(* GridDen and an area a numerator over GridDen * GridDen.  Rounding is    *)
(* not modelled.                                                           *)
(***************************************************************************)
EXTENDS Integers, Sequences, FiniteSets, TLC

VARIABLES
    \* ---- catch_url_error.wrapper ----
    pc,          \* position of the wrapper call
    passed,      \* the caller's pretrained keyword: Absent or Passed(b)
    fargs,       \* the other arguments of the call
    pretrained,  \* the wrapper's local `pretrained`
    calls,       \* invocations of the wrapped factory made by this call
    warnings,    \* warnings emitted by this call (rank_zero_warn)
    result,      \* the value returned or the error raised by the call
    \* ---- _reformat_bbox ----
    bin,         \* arguments (xmin, ymin, box_w, box_h, img_w, img_h)
    bout,        \* the pair (output_bbox, area) returned, or NotRun
    \* ---- load_data ----
    data,        \* the sample collection handed to load_data
    lpc,         \* "build" while the collection is populated, then "loaded"
    loaded,      \* what load_data returned or raised
    dataset,     \* the `dataset` argument of load_data and its num_classes
    \* ---- one sample on its way through a data source and a task ----
    source,      \* the data source the sample comes from
    image_size,  \* image_size of the ImageClassificationPreprocess
    orig,        \* the sample as load_data produced it
    smp,         \* the sample (later the batch) as it is now
    stage,       \* how far the sample has come
    trace,       \* the conversions applied to fields of the sample, in order
    returns,     \* what each call of load_sample returned or raised
    \* ---- PathsDataSource.load_data on a folder of class folders ----
    tree,        \* the class folders under the root and the files in each
    ploaded,     \* what load_data returned, or NotLoaded
    \* ---- the backbone registries ----
    regs,        \* the entries of OBJ_DETECTION_BACKBONES and of
                 \* IMAGE_CLASSIFIER_BACKBONES
    lookups,     \* the lookups made, each with what it returned or raised
    \* ---- ObjectDetectionData.from_coco / from_voc / from_via ----
    fcall        \* the arguments of the call and the from_data_source call
                 \* it makes, or NoCall

wvars == <<pc, passed, fargs, pretrained, calls, warnings, result>>
bvars == <<bin, bout>>
lvars == <<data, lpc, loaded, dataset>>
svars == <<source, image_size, orig, smp, stage, trace, returns>>
pvars == <<tree, ploaded>>
rvars == <<regs, lookups>>
fvars == <<fcall>>
yvars == <<pvars, rvars, fvars>>
xvars == <<svars, yvars>>
vars == <<wvars, bvars, lvars, xvars>>

(***************************************************************************)
(*                    catch_url_error  (backbones.py)                      *)
(***************************************************************************)

\* The caller's keywords: <<>> when `pretrained` is not passed, <<b>> when it is.
Absent == <<>>
Passed(b) == <<b>>
NoResult == [kind |-> "none"]

\* urllib.error: HTTPError and ContentTooShortError subclass URLError, so
\* `except urllib.error.URLError` catches them too.
URLErrors == {"URLError", "HTTPError"}
OtherErrors == {"RuntimeError"}
Errors == URLErrors \cup OtherErrors
Outcomes == {"ok"} \cup Errors

\* A slice of RESNET_MODELS, enough to tell two registered factories apart.
ModelNames == {"resnet18", "resnet50"}
FnArgs == [model_name : ModelNames, trainable_layers : BOOLEAN]

\* The default of the wrapper's keyword-only parameter `pretrained`.
WrapperDefault == FALSE

\* The default of `pretrained` declared by the registered factories.
FnDefault == TRUE

\* What a registered factory builds when it succeeds: the backbone for the
\* model name bound by partial(), with or without pretrained weights, and the
\* number of features.
fn_resnet_fpn(a, p) ==
    [backbone |-> [model_name |-> a.model_name, pretrained |-> p,
                   trainable_layers |-> a.trainable_layers],
     num_features |-> 256]

\* The factory of the test: raises URLError exactly when pretrained.
raise_error_if_pretrained(p) == IF p THEN "URLError" ELSE "ok"

\* `pretrained` as bound on entry to wrapper(*args, pretrained=False, **kwargs).
BindPretrained(kw) == IF kw = Absent THEN WrapperDefault ELSE kw[1]

\* A slip: a bare `except Exception`.
CatchAll(e) == TRUE

\* The except clause: which errors of the first invocation are caught.
IsCaught(e) == e \in URLErrors

\* A slip: the fallback repeats the caller's value.
FallbackSame(p) == p

\* The value of `pretrained` in the fallback invocation.
FallbackPretrained(p) == FALSE

\* A slip: the warning is emitted on the way out of every call that returns.
AfterTryWarnAlways(o) ==
    IF o = "ok" THEN "warn"
    ELSE IF o \in URLErrors THEN "except"
    ELSE "raised"

\* Where the wrapper goes after the first invocation ended with outcome o.
AfterTry(o) ==
    IF o = "ok" THEN "returned"
    ELSE IF IsCaught(o) THEN "except"
    ELSE "raised"

\* A slip: the fallback is retried while the network error lasts.
AfterFallbackRetry(o) ==
    IF o = "ok" THEN "warn"
    ELSE IF o \in URLErrors THEN "except"
    ELSE "raised"

\* Where the wrapper goes after the fallback invocation ended with outcome o:
\* the except block has no handler of its own.
AfterFallback(o) == IF o = "ok" THEN "warn" ELSE "raised"

\* Warnings emitted by the statement between the fallback call and `return`.
WarnCount(n) == n + 1

Invocation(p, o) == [pretrained |-> p, args |-> fargs, outcome |-> o]

WrapperInit ==
    /\ pc = "idle"
    /\ passed = Absent
    /\ fargs = [model_name |-> "resnet18", trainable_layers |-> TRUE]
    /\ pretrained = WrapperDefault
    /\ calls = <<>>
    /\ warnings = 0
    /\ result = NoResult

\* The caller calls the wrapper.
Call(kw, a) ==
    /\ pc \in {"idle", "returned", "raised"}
    /\ pc' = "try"
    /\ passed' = kw
    /\ fargs' = a
    /\ pretrained' = BindPretrained(kw)
    /\ calls' = <<>>
    /\ warnings' = 0
    /\ result' = NoResult
    /\ UNCHANGED <<bvars, lvars, xvars>>

\* try: return fn(*args, pretrained=pretrained, **kwargs)
TryFn(o) ==
    /\ pc = "try"
    /\ calls' = Append(calls, Invocation(pretrained, o))
    /\ pc' = AfterTry(o)
    /\ result' = IF o = "ok"
                 THEN [kind |-> "value", value |-> fn_resnet_fpn(fargs, pretrained)]
                 ELSE IF AfterTry(o) = "raised"
                 THEN [kind |-> "error", error |-> o]
                 ELSE NoResult
    /\ UNCHANGED <<passed, fargs, pretrained, warnings, bvars, lvars, xvars>>

\* except URLError: result = fn(*args, pretrained=False, **kwargs)
FallbackFn(o) ==
    /\ pc = "except"
    /\ calls' = Append(calls, Invocation(FallbackPretrained(pretrained), o))
    /\ pc' = AfterFallback(o)
    /\ result' = IF o = "ok"
                 THEN [kind |-> "value",
                       value |-> fn_resnet_fpn(fargs, FallbackPretrained(pretrained))]
                 ELSE IF AfterFallback(o) = "raised"
                 THEN [kind |-> "error", error |-> o]
                 ELSE NoResult
    /\ UNCHANGED <<passed, fargs, pretrained, warnings, bvars, lvars, xvars>>

\* rank_zero_warn(...); return result
Warn ==
    /\ pc = "warn"
    /\ warnings' = WarnCount(warnings)
    /\ pc' = "returned"
    /\ UNCHANGED <<passed, fargs, pretrained, calls, result, bvars, lvars, xvars>>

WrapperNext ==
    \/ \E kw \in {Absent} \cup {Passed(b) : b \in BOOLEAN}, a \in FnArgs : Call(kw, a)
    \/ \E o \in Outcomes : TryFn(o)
    \/ \E o \in Outcomes : FallbackFn(o)
    \/ Warn

(***************************************************************************)
(*     ObjectDetectionFiftyOneDataSource._reformat_bbox  (data.py)         *)
(***************************************************************************)

\* Denominator of the normalized coordinates: x stands for x / GridDen.
GridDen == 2
\* Largest image width and height, in pixels.
MaxDim == 2

NotRun == [bbox |-> <<>>, area |-> 0, ran |-> FALSE]

\* A slip: the vertical values are scaled by the width.
reformat_bbox_by_width(xmin, ymin, box_w, box_h, img_w, img_h) ==
    LET xmin1 == xmin * img_w
        ymin1 == ymin * img_w
        box_w1 == box_w * img_w
        box_h1 == box_h * img_w
    IN  [bbox |-> <<xmin1, ymin1, xmin1 + box_w1, ymin1 + box_h1>>,
         area |-> box_w1 * box_h1, ran |-> TRUE]

\* _reformat_bbox(xmin, ymin, box_w, box_h, img_w, img_h), statement by
\* statement.  Arguments 1-4 and the four coordinates returned are numerators
\* over GridDen; the area returned is a numerator over GridDen * GridDen.
_reformat_bbox(xmin, ymin, box_w, box_h, img_w, img_h) ==
    LET xmin1 == xmin * img_w
        ymin1 == ymin * img_h
        box_w1 == box_w * img_w
        box_h1 == box_h * img_h
        xmax == xmin1 + box_w1
        ymax == ymin1 + box_h1
        output_bbox == <<xmin1, ymin1, xmax, ymax>>
    IN  [bbox |-> output_bbox, area |-> box_w1 * box_h1, ran |-> TRUE]

Coords == 0..GridDen
Dims == 1..MaxDim

BBoxInit ==
    /\ bin \in [x : Coords, y : Coords, w : Coords, h : Coords,
                img_w : Dims, img_h : Dims]
    /\ bout = NotRun

Reformat ==
    /\ ~bout.ran
    /\ bout' = _reformat_bbox(bin.x, bin.y, bin.w, bin.h, bin.img_w, bin.img_h)
    /\ UNCHANGED <<bin, wvars, lvars, xvars>>

BBoxNext == Reformat

(***************************************************************************)
(*     ObjectDetectionFiftyOneDataSource.load_data  (data.py)              *)
(***************************************************************************)

\* Most detection values in one field of a sample, and most detection values
\* in the whole collection.
MaxDet == 2
MaxEntries == 6

\* A crowd flag that is missing.
None == -1

\* The image files on disk, with the metadata compute_metadata() reads from
\* them.  The samples of a collection have distinct filepaths.
Images ==
    { [filepath |-> "a.jpg", width |-> MaxDim, height |-> 1],
      [filepath |-> "b.jpg", width |-> 1, height |-> MaxDim] }

\* The classes of the collection (_get_classes) and the labels detections carry.
Classes == <<"cat", "dog">>
LabelNames == {"dog", "bird"}

\* Normalized boxes [x, y, w, h] over GridDen: the whole image, a box of zero
\* width, and the lower right quarter.
Boxes ==
    { <<1, 0, 0, 1>>, <<1, 1, 1, 1>> }

CrowdFlags == {None, 1}

\* label_cls: the label type the data source reads.
label_cls == "Detections"
LabelTypes == {"Detections", "Classification"}

\* _validate(data) of the base class FiftyOneDataSource: the label field of
\* the collection must hold labels of type label_cls.
_validate(label_type) == label_type = label_cls

Min2(a, b) == IF a <= b THEN a ELSE b

\* Number of tuples zip() yields over three sequences: it stops with the
\* shortest.
ZipLen(a, b, c) == Min2(Len(a), Min2(Len(b), Len(c)))

\* A slip: enumerate(classes, 1).
class_to_idx_from_one(classes, lab) ==
    CHOOSE i \in 1..Len(classes) :
        /\ classes[i] = lab
        /\ \A j \in 1..Len(classes) : classes[j] = lab => j <= i

\* class_to_idx = {cls_name: i for i, cls_name in enumerate(classes)}
HasClass(classes, lab) == \E i \in 1..Len(classes) : classes[i] = lab
class_to_idx(classes, lab) ==
    (CHOOSE i \in 1..Len(classes) :
        /\ classes[i] = lab
        /\ \A j \in 1..Len(classes) : classes[j] = lab => j <= i) - 1

\* A slip: the default for a missing crowd flag is left out.
CrowdKeepNone(iscrowd) == iscrowd

\* if iscrowd is None: iscrowd = 0
CrowdOrDefault(iscrowd) == IF iscrowd = None THEN 0 ELSE iscrowd

\* A slip: a missing crowd flag is skipped instead of defaulted.
AppendCrowdIfPresent(output_iscrowd, iscrowd) ==
    IF iscrowd = None THEN output_iscrowd ELSE Append(output_iscrowd, iscrowd)

\* output_iscrowd.append(iscrowd), after the default was applied.
AppendCrowd(output_iscrowd, iscrowd) ==
    Append(output_iscrowd, CrowdOrDefault(iscrowd))

EmptyTarget == [boxes |-> <<>>, labels |-> <<>>, area |-> <<>>, iscrowd |-> <<>>,
                raised |-> "no"]

\* The inner loop, from its k-th iteration on: acc holds output_boxes,
\* output_labs, output_areas and output_iscrowd.  class_to_idx[lab] raises
\* KeyError for a label outside the classes, after the area was appended.
RECURSIVE DetLoop(_, _, _, _)
DetLoop(item, classes, k, acc) ==
    IF k > ZipLen(item.labels, item.bboxes, item.iscrowds) THEN acc
    ELSE LET lab == item.labels[k]
             box == item.bboxes[k]
             iscrowd == item.iscrowds[k]
             r == _reformat_bbox(box[1], box[2], box[3], box[4],
                                 item.width, item.height)
         IN  IF ~HasClass(classes, lab)
             THEN [acc EXCEPT !.raised = "KeyError"]
             ELSE DetLoop(item, classes, k + 1,
                     [boxes |-> Append(acc.boxes, r.bbox),
                      labels |-> Append(acc.labels, class_to_idx(classes, lab)),
                      area |-> Append(acc.area, r.area),
                      iscrowd |-> AppendCrowd(acc.iscrowd, iscrowd),
                      raised |-> "no"])

\* The sample appended to output_data for one item of the collection.
MakeSample(fp, img_id, t) ==
    [input |-> fp,
     target |-> [boxes |-> t.boxes, labels |-> t.labels, image_id |-> img_id,
                 area |-> t.area, iscrowd |-> t.iscrowd]]

\* A slip: the counter is not advanced.
NextImgIdStuck(img_id) == img_id

\* img_id = 1 before the loop; img_id += 1 after each sample.
FirstImgId == 1
NextImgId(img_id) == img_id + 1

\* The outer loop, from its i-th iteration on.
RECURSIVE ItemLoop(_, _, _, _, _)
ItemLoop(samples, classes, i, img_id, output_data) ==
    IF i > Len(samples) THEN [kind |-> "value", samples |-> output_data]
    ELSE LET item == samples[i]
             t == DetLoop(item, classes, 1, EmptyTarget)
         IN  IF t.raised # "no"
             THEN [kind |-> "error", error |-> t.raised]
             ELSE ItemLoop(samples, classes, i + 1, NextImgId(img_id),
                     Append(output_data, MakeSample(item.filepath, img_id, t)))

\* load_data(data, dataset): what it returns or raises.
load_data(label_type, d) ==
    IF ~_validate(label_type)
    THEN [kind |-> "error", error |-> "ValueError"]
    ELSE ItemLoop(d.samples, d.classes, 1, FirstImgId, <<>>)

NotLoaded == [kind |-> "none"]

\* The `dataset` argument: None, or an object whose num_classes is not set.
NoDataset == [given |-> FALSE, num_classes |-> None]
NewDataset == [given |-> TRUE, num_classes |-> None]

\* A slip: a background class is counted in.
NumClassesWithBackground(classes) == Len(classes) + 1

\* len(classes)
NumClasses(classes) == Len(classes)

\* if dataset is not None: dataset.num_classes = len(classes) -- reached once
\* _validate has passed, before the loops.
SetNumClasses(label_type, ds, classes) ==
    IF _validate(label_type) /\ ds.given
    THEN [ds EXCEPT !.num_classes = NumClasses(classes)]
    ELSE ds

Entries(samples) ==
    LET RECURSIVE Sum(_)
        Sum(i) == IF i = 0 THEN 0
                  ELSE Sum(i - 1) + Len(samples[i].labels)
                       + Len(samples[i].bboxes) + Len(samples[i].iscrowds)
    IN  Sum(Len(samples))

LoadInit ==
    /\ data = [classes |-> Classes, samples |-> <<>>]
    /\ lpc = "build"
    /\ loaded = NotLoaded
    /\ dataset = NoDataset

Last(s) == s[Len(s)]
SetLast(s, x) == [s EXCEPT ![Len(s)] = x]

\* The collection gains a sample without detections.
AddSample(img) ==
    /\ lpc = "build"
    /\ \A i \in 1..Len(data.samples) : data.samples[i].filepath # img.filepath
    /\ data' = [data EXCEPT !.samples = Append(@,
                   [filepath |-> img.filepath, width |-> img.width,
                    height |-> img.height,
                    labels |-> <<>>, bboxes |-> <<>>, iscrowds |-> <<>>])]
    /\ UNCHANGED <<lpc, loaded, dataset, wvars, bvars, xvars>>

CanGrow ==
    /\ lpc = "build"
    /\ Len(data.samples) > 0
    /\ Entries(data.samples) < MaxEntries

\* The newest sample gains a label, a bounding box or a crowd flag.
AddLabel(lab) ==
    /\ CanGrow
    /\ Len(Last(data.samples).labels) < MaxDet
    /\ data' = [data EXCEPT !.samples = SetLast(@,
                   [Last(@) EXCEPT !.labels = Append(@, lab)])]
    /\ UNCHANGED <<lpc, loaded, dataset, wvars, bvars, xvars>>

AddBox(box) ==
    /\ CanGrow
    /\ Len(Last(data.samples).bboxes) < MaxDet
    /\ data' = [data EXCEPT !.samples = SetLast(@,
                   [Last(@) EXCEPT !.bboxes = Append(@, box)])]
    /\ UNCHANGED <<lpc, loaded, dataset, wvars, bvars, xvars>>

AddCrowd(flag) ==
    /\ CanGrow
    /\ Len(Last(data.samples).iscrowds) < MaxDet
    /\ data' = [data EXCEPT !.samples = SetLast(@,
                   [Last(@) EXCEPT !.iscrowds = Append(@, flag)])]
    /\ UNCHANGED <<lpc, loaded, dataset, wvars, bvars, xvars>>

\* The data module calls load_data on the collection, with or without a
\* dataset.
LoadData(label_type, ds) ==
    /\ lpc = "build"
    /\ lpc' = "loaded"
    /\ loaded' = load_data(label_type, data)
    /\ dataset' = SetNumClasses(label_type, ds, data.classes)
    /\ UNCHANGED <<data, wvars, bvars, xvars>>

LoadNext ==
    \/ \E img \in Images : AddSample(img)
    \/ \E lab \in LabelNames : AddLabel(lab)
    \/ \E box \in Boxes : AddBox(box)
    \/ \E flag \in CrowdFlags : AddCrowd(flag)
    \/ \E label_type \in LabelTypes, ds \in {NoDataset, NewDataset} :
           LoadData(label_type, ds)

(***************************************************************************)
(*  load_sample (detection/data.py, classification/data.py), the default  *)
(*  transforms (classification/transforms.py) and the steps of            *)
(*  ImageClassifier (classification/model.py), on one sample              *)
(***************************************************************************)

\* A key the sample does not hold.
Missing == [kind |-> "missing"]

\* The values of INPUT: a file path, a decoded image, a tensor.
PathOf(p) == [kind |-> "path", path |-> p]
ImageOf(p, size) == [kind |-> "image", file |-> p, size |-> size]
TensorOf(v) == [kind |-> "tensor", of |-> v]

\* The values of TARGET: a class index, or the target of a detection sample.
ClassTarget(i) == [kind |-> "class", index |-> i]
DetectionTarget(t) == [kind |-> "detection", detections |-> t]

\* Image.size of the file at path p, as (width, height).
SizeOfFile(p) ==
    LET img == CHOOSE i \in Images : i.filepath = p
    IN  <<img.width, img.height>>

\* torchvision's default_loader: opens the file at a path and decodes it.
\* Handed anything but a path, open() raises TypeError.
default_loader(x) ==
    IF x.kind = "path"
    THEN [kind |-> "value", image |-> ImageOf(x.path, SizeOfFile(x.path))]
    ELSE [kind |-> "error", error |-> "TypeError"]

\* ObjectDetectionFiftyOneDataSource.load_sample: what it returns or raises.
\* The sample is changed in place, after default_loader has returned.
detection_load_sample(sample) ==
    LET filepath == sample.input
        img == default_loader(filepath)
    IN  IF img.kind = "error" THEN img
        ELSE [kind |-> "value",
              sample |-> [sample EXCEPT
                  !.input = img.image,
                  !.metadata = [kind |-> "metadata", filepath |-> filepath,
                                size |-> <<img.image.size[2], img.image.size[1]>>]]]

\* ImageClassificationPathsDataSource.load_sample: what it returns or raises.
classification_load_sample(sample) ==
    LET img == default_loader(sample.input)
    IN  IF img.kind = "error" THEN img
        ELSE [kind |-> "value", sample |-> [sample EXCEPT !.input = img.image]]

Sources == {"classification", "detection"}

load_sample(src, sample) ==
    IF src = "detection" THEN detection_load_sample(sample)
    ELSE classification_load_sample(sample)

\* The sample schema: INPUT, TARGET, METADATA, PREDS.
NewSample(input, target) ==
    [input |-> input, target |-> target, metadata |-> Missing, preds |-> Missing]

\* The samples load_data of the detection source returns for collections of
\* one sample with at most one detection.
DetectionItems ==
    { [filepath |-> img.filepath, width |-> img.width, height |-> img.height,
       labels |-> labs, bboxes |-> boxes, iscrowds |-> flags] :
          img \in Images,
          labs \in {<<>>, <<"dog">>},
          boxes \in {<<b>> : b \in Boxes},
          flags \in {<<f>> : f \in CrowdFlags} }

DetectionSample(item) ==
    LET r == load_data(label_cls, [classes |-> Classes, samples |-> <<item>>])
        s == r.samples[1]
    IN  NewSample(PathOf(s.input), DetectionTarget(s.target))

\* image_size of ImageClassificationPreprocess: the default and two others.
DefaultImageSize == <<64, 64>>
ImageSizes == {DefaultImageSize, <<32, 48>>, <<128, 128>>}

SampleIdle ==
    /\ source = "classification"
    /\ image_size = DefaultImageSize
    /\ orig = NewSample(Missing, Missing)
    /\ smp = NewSample(Missing, Missing)
    /\ stage = "none"
    /\ trace = <<>>
    /\ returns = <<>>

\* load_data of the detection source has produced a sample.
StartDetection(item) ==
    /\ stage = "none"
    /\ source' = "detection"
    /\ orig' = DetectionSample(item)
    /\ smp' = DetectionSample(item)
    /\ stage' = "data"
    /\ UNCHANGED <<image_size, trace, returns, wvars, bvars, lvars, yvars>>

\* load_data of the paths source has produced a sample: a file and the index
\* of its class.
StartClassification(img, idx, size) ==
    /\ stage = "none"
    /\ source' = "classification"
    /\ image_size' = size
    /\ orig' = NewSample(PathOf(img.filepath), ClassTarget(idx))
    /\ smp' = NewSample(PathOf(img.filepath), ClassTarget(idx))
    /\ stage' = "data"
    /\ UNCHANGED <<trace, returns, wvars, bvars, lvars, yvars>>

\* Calls of load_sample on one sample.
MaxLoadCalls == 2

\* load_sample is called on the sample: the first time on the sample of
\* load_data, a second time on the sample the first call returned.
LoadSample ==
    /\ stage \in {"data", "loaded"}
    /\ Len(returns) < MaxLoadCalls
    /\ LET r == load_sample(source, smp)
       IN  /\ returns' = Append(returns, r)
           /\ smp' = IF r.kind = "value" THEN r.sample ELSE smp
           /\ stage' = IF r.kind = "value" THEN "loaded" ELSE "failed"
    /\ UNCHANGED <<source, image_size, orig, trace, wvars, bvars, lvars, yvars>>

\* The functions the default transforms apply to a field.
Resize(size) == [name |-> "Resize", size |-> size]
ToTensor == [name |-> "ToTensor", size |-> <<>>]
as_tensor == [name |-> "as_tensor", size |-> <<>>]
default_collate == [name |-> "default_collate", size |-> <<>>]

\* Resize((h, w)) gives an image of width w and height h; ToTensor and
\* torch.as_tensor give a tensor of the value.
ApplyFn(fn, v) ==
    IF fn.name = "Resize" THEN [v EXCEPT !.size = <<fn.size[2], fn.size[1]>>]
    ELSE TensorOf(v)

\* ApplyToKeys(key, fn): a transform of the sample that applies fn to the
\* field `key` and passes the other fields on.
ApplyToKeys(key, fn) == [key |-> key, fn |-> fn]
RunApplyToKeys(step, sample) == [sample EXCEPT ![step.key] = ApplyFn(step.fn, @)]

\* A slip: the target is converted before the input.
default_transforms_target_first(size) ==
    [pre_tensor_transform |-> <<ApplyToKeys("input", Resize(size))>>,
     to_tensor_transform |-> <<ApplyToKeys("target", as_tensor),
                               ApplyToKeys("input", ToTensor)>>,
     collate |-> <<default_collate>>]

\* default_transforms(image_size): hook name -> transform.  nn.Sequential is
\* the sequence of its modules, applied first to last.
default_transforms(size) ==
    [pre_tensor_transform |-> <<ApplyToKeys("input", Resize(size))>>,
     to_tensor_transform |-> <<ApplyToKeys("input", ToTensor),
                               ApplyToKeys("target", as_tensor)>>,
     collate |-> <<default_collate>>]

\* The modules of a hook applied in order, from the k-th on.
RECURSIVE RunSequential(_, _, _)
RunSequential(steps, k, sample) ==
    IF k > Len(steps) THEN sample
    ELSE RunSequential(steps, k + 1, RunApplyToKeys(steps[k], sample))

\* What the run of a hook adds to the trace: hook, field and function of
\* each module, in order.
HookTrace(hook, steps) ==
    [k \in 1..Len(steps) |->
        [hook |-> hook, key |-> steps[k].key, fn |-> steps[k].fn.name]]

\* default_collate on the list holding this one sample: a batch with the
\* keys of the sample, each holding the values stacked.
Batched(v) == IF v = Missing THEN Missing ELSE [kind |-> "batch", items |-> <<v>>]
RunCollate(sample) ==
    [input |-> Batched(sample.input), target |-> Batched(sample.target),
     metadata |-> Batched(sample.metadata), preds |-> Batched(sample.preds)]

\* The preprocess runs the hooks pre_tensor_transform, to_tensor_transform
\* and collate of the transforms of ImageClassificationPreprocess.
PreTensorTransform ==
    /\ source = "classification"
    /\ stage = "loaded"
    /\ LET steps == default_transforms(image_size).pre_tensor_transform
       IN  /\ smp' = RunSequential(steps, 1, smp)
           /\ trace' = trace \o HookTrace("pre_tensor_transform", steps)
    /\ stage' = "pre"
    /\ UNCHANGED <<source, image_size, orig, returns, wvars, bvars, lvars, yvars>>

ToTensorTransform ==
    /\ source = "classification"
    /\ stage = "pre"
    /\ LET steps == default_transforms(image_size).to_tensor_transform
       IN  /\ smp' = RunSequential(steps, 1, smp)
           /\ trace' = trace \o HookTrace("to_tensor_transform", steps)
    /\ stage' = "tensor"
    /\ UNCHANGED <<source, image_size, orig, returns, wvars, bvars, lvars, yvars>>

Collate ==
    /\ source = "classification"
    /\ stage = "tensor"
    /\ smp' = RunCollate(smp)
    /\ stage' = "collated"
    /\ UNCHANGED <<source, image_size, orig, trace, returns, wvars, bvars, lvars, yvars>>

\* The output of the model on the inputs of a batch (Task.predict_step).
ModelOutput(x) == [kind |-> "preds", of |-> x]

\* A slip: the step stores the output of the model in the batch.
step_batch_with_preds(batch) == [batch EXCEPT !.preds = ModelOutput(batch.input)]

\* training_step, validation_step, test_step: the batch after the step.  They
\* read INPUT and TARGET into a tuple and hand it to the base class.
step_batch(batch) == batch

\* predict_step: batch[PREDS] = super().predict_step(batch[INPUT], ...);
\* return batch
predict_step(batch) == [batch EXCEPT !.preds = ModelOutput(batch.input)]

TrainingStep ==
    /\ stage = "collated"
    /\ smp' = step_batch(smp)
    /\ stage' = "trained"
    /\ UNCHANGED <<source, image_size, orig, trace, returns, wvars, bvars, lvars, yvars>>

ValidationStep ==
    /\ stage = "collated"
    /\ smp' = step_batch(smp)
    /\ stage' = "validated"
    /\ UNCHANGED <<source, image_size, orig, trace, returns, wvars, bvars, lvars, yvars>>

TestStep ==
    /\ stage = "collated"
    /\ smp' = step_batch(smp)
    /\ stage' = "tested"
    /\ UNCHANGED <<source, image_size, orig, trace, returns, wvars, bvars, lvars, yvars>>

PredictStep ==
    /\ stage = "collated"
    /\ smp' = predict_step(smp)
    /\ stage' = "predicted"
    /\ UNCHANGED <<source, image_size, orig, trace, returns, wvars, bvars, lvars, yvars>>

\* Indices of the classes of the paths source (two class folders).
ClassIndices == {0, 1}

SampleNext ==
    \/ \E item \in DetectionItems : StartDetection(item)
    \/ \E img \in Images, idx \in ClassIndices, size \in ImageSizes :
           StartClassification(img, idx, size)
    \/ LoadSample
    \/ PreTensorTransform
    \/ ToTensorTransform
    \/ Collate
    \/ TrainingStep
    \/ ValidationStep
    \/ TestStep
    \/ PredictStep

(***************************************************************************)
(*  ImageClassificationPathsDataSource.load_data  (classification/data.py; *)
(*  load_data itself is inherited from flash.core PathsDataSource)         *)
(***************************************************************************)

\* The names a class folder may have, in sorted order.
DirNames == <<"ants", "bees", "wasps">>

\* The files a class folder may hold, in sorted order.
Files == <<[stem |-> "a", ext |-> ".png"],
           [stem |-> "b", ext |-> ".jpg"],
           [stem |-> "notes", ext |-> ".txt"]>>

\* torchvision.datasets.folder.IMG_EXTENSIONS, passed as `extensions` by
\* ImageClassificationPathsDataSource.__init__.
IMG_EXTENSIONS ==
    {".jpg", ".jpeg", ".png", ".ppm", ".bmp", ".pgm", ".tif", ".tiff", ".webp"}

has_file_allowed_extension(f, extensions) == f.ext \in extensions

NoDir == [exists |-> FALSE, files |-> {}]
EmptyRoot == [d \in DOMAIN DirNames |-> NoDir]

\* The class folders that exist under the root, in sorted order of name.
find_classes(t) ==
    SelectSeq([d \in DOMAIN DirNames |-> d], LAMBDA d : t[d].exists)

\* A slip: the index of the folder's name among all the names a folder may
\* have, rather than among the folders that exist.
PathsTargetOfName(classes, i) == classes[i] - 1

\* The class index of the i-th class folder: class indices are assigned by
\* sorted folder name, from 0.
PathsTarget(classes, i) == i - 1

\* The samples of the i-th class folder: one per file with an allowed
\* extension, in sorted order of file name.
SamplesOfDir(t, classes, i) ==
    LET d == classes[i]
        fs == SelectSeq([k \in DOMAIN Files |-> k],
                        LAMBDA k : /\ k \in t[d].files
                                   /\ has_file_allowed_extension(Files[k], IMG_EXTENSIONS))
    IN [j \in 1..Len(fs) |->
            [input |-> [dir |-> DirNames[d], file |-> Files[fs[j]]],
             target |-> PathsTarget(classes, i)]]

RECURSIVE make_dataset(_, _, _)
make_dataset(t, classes, i) ==
    IF i > Len(classes) THEN <<>>
    ELSE SamplesOfDir(t, classes, i) \o make_dataset(t, classes, i + 1)

paths_load_data(t) ==
    [kind |-> "value", samples |-> make_dataset(t, find_classes(t), 1)]

PathsIdle ==
    /\ tree = EmptyRoot
    /\ ploaded = NotLoaded

MkDir(d) ==
    /\ ploaded = NotLoaded
    /\ ~tree[d].exists
    /\ tree' = [tree EXCEPT ![d].exists = TRUE]
    /\ UNCHANGED <<ploaded, wvars, bvars, lvars, svars, rvars, fvars>>

AddFile(d, f) ==
    /\ ploaded = NotLoaded
    /\ tree[d].exists
    /\ f \notin tree[d].files
    /\ tree' = [tree EXCEPT ![d].files = @ \cup {f}]
    /\ UNCHANGED <<ploaded, wvars, bvars, lvars, svars, rvars, fvars>>

PathsLoadData ==
    /\ ploaded = NotLoaded
    /\ ploaded' = paths_load_data(tree)
    /\ UNCHANGED <<tree, wvars, bvars, lvars, svars, rvars, fvars>>

PathsNext ==
    \/ \E d \in DOMAIN DirNames : MkDir(d)
    \/ \E d \in DOMAIN DirNames, f \in DOMAIN Files : AddFile(d, f)
    \/ PathsLoadData

(***************************************************************************)
(*  The backbone registries: OBJ_DETECTION_BACKBONES (backbones.py) and    *)
(*  IMAGE_CLASSIFIER_BACKBONES (classification/backbones.py), filled at    *)
(*  import and then looked up by name                                      *)
(***************************************************************************)

RESNET_MODELS ==
    <<"resnet18", "resnet34", "resnet50", "resnet101", "resnet152",
      "resnext50_32x4d", "resnext101_32x8d">>

\* A name no backbone is registered under.
UnknownNames == {"vgg16"}
LookupNames == {RESNET_MODELS[i] : i \in DOMAIN RESNET_MODELS} \cup UnknownNames

\* The namespace of an entry registered without one, and the namespace the
\* classification backbones are registered under.
DefaultNamespace == "default"
Namespaces == {DefaultNamespace, "vision"}

Registries == {"OBJ_DETECTION_BACKBONES", "IMAGE_CLASSIFIER_BACKBONES"}
EmptyRegistries == [r \in Registries |-> <<>>]

\* A slip: a closure over the loop variable in place of partial(); when the
\* entry is called, the loop variable holds the last name of RESNET_MODELS.
closure_over_loop_variable(func, model_name) ==
    [func |-> func, model_name |-> RESNET_MODELS[Len(RESNET_MODELS)]]

\* functools.partial(func, model_name): the name is bound when the entry is
\* registered.
partial(func, model_name) == [func |-> func, model_name |-> model_name]

\* The entry one iteration of the detection loop registers.
DetectionEntry(model_name) ==
    [name |-> model_name,
     namespace |-> DefaultNamespace,
     fn |-> partial("_fn_resnet_fpn", model_name),
     metadata |-> [package |-> "torchvision", type |-> "resnet-fpn"]]

\* The entry one iteration of the classification loop registers.
ClassificationEntry(model_name) ==
    [name |-> model_name,
     namespace |-> "vision",
     fn |-> partial("_fn_resnet", model_name),
     metadata |-> [package |-> "torchvision", type |-> "resnet"]]

HasKey(entries, name, namespace) ==
    \E i \in DOMAIN entries :
        entries[i].name = name /\ entries[i].namespace = namespace

\* register stores the entry; with the key already present it fails with
\* DuplicateKeyError (the guard of the registering actions).
register(entries, e) == Append(entries, e)

\* What _fn_resnet builds: the children of the torchvision model but the
\* last two, and the in_features of that model's fc layer.
fn_resnet(model_name, p) ==
    [backbone |-> [model_name |-> model_name, pretrained |-> p,
                   children |-> "[:-2]"],
     fc_in_features_of |-> model_name]

\* The default of `trainable_layers` declared by _fn_resnet_fpn.
TrainableLayersDefault == TRUE

\* The registered factory called with the caller's keywords, the pretrained
\* weights being reachable: catch_url_error's wrapper binds `pretrained` and
\* calls the partial, which calls the function with its bound model name.
call_factory(fn, kw) ==
    IF fn.func = "_fn_resnet_fpn"
    THEN [kind |-> "value",
          value |-> fn_resnet_fpn(
                        [model_name |-> fn.model_name,
                         trainable_layers |-> TrainableLayersDefault],
                        BindPretrained(kw))]
    ELSE [kind |-> "value", value |-> fn_resnet(fn.model_name, BindPretrained(kw))]

Matching(entries, name, namespace) ==
    {i \in DOMAIN entries :
        entries[i].name = name /\ entries[i].namespace = namespace}

\* A slip: a lookup that finds nothing falls back to the first entry.
resolve_or_default(entries, name, namespace, kw) ==
    IF Matching(entries, name, namespace) = {}
    THEN call_factory(entries[1].fn, kw)
    ELSE call_factory(
             entries[CHOOSE i \in Matching(entries, name, namespace) : TRUE].fn,
             kw)

\* resolve(name, namespace, **call_kwargs): LookupError if no entry matches,
\* otherwise the result of the stored factory called with call_kwargs.
resolve(entries, name, namespace, kw) ==
    IF Matching(entries, name, namespace) = {}
    THEN [kind |-> "error", error |-> "LookupError"]
    ELSE call_factory(
             entries[CHOOSE i \in Matching(entries, name, namespace) : TRUE].fn,
             kw)

RegistryIdle ==
    /\ regs = EmptyRegistries
    /\ lookups = <<>>

\* One iteration of `for model_name in RESNET_MODELS` in backbones.py.
RegisterDetection ==
    LET entries == regs["OBJ_DETECTION_BACKBONES"]
        model_name == RESNET_MODELS[Len(entries) + 1]
    IN /\ Len(entries) < Len(RESNET_MODELS)
       /\ ~HasKey(entries, model_name, DefaultNamespace)
       /\ regs' = [regs EXCEPT !["OBJ_DETECTION_BACKBONES"] =
                       register(@, DetectionEntry(model_name))]
       /\ UNCHANGED <<lookups, wvars, bvars, lvars, svars, pvars, fvars>>

\* One iteration of the loop in classification/backbones.py, which imports
\* catch_url_error from backbones.py and so runs after the loop there.
RegisterClassification ==
    LET entries == regs["IMAGE_CLASSIFIER_BACKBONES"]
        model_name == RESNET_MODELS[Len(entries) + 1]
    IN /\ Len(regs["OBJ_DETECTION_BACKBONES"]) = Len(RESNET_MODELS)
       /\ Len(entries) < Len(RESNET_MODELS)
       /\ ~HasKey(entries, model_name, "vision")
       /\ regs' = [regs EXCEPT !["IMAGE_CLASSIFIER_BACKBONES"] =
                       register(@, ClassificationEntry(model_name))]
       /\ UNCHANGED <<lookups, wvars, bvars, lvars, svars, pvars, fvars>>

Imported == \A r \in Registries : Len(regs[r]) = Len(RESNET_MODELS)

\* Lookups made in one run.
MaxLookups == 2

Resolve(r, name, namespace, kw) ==
    /\ Imported
    /\ Len(lookups) < MaxLookups
    /\ lookups' = Append(lookups,
                      [registry |-> r, name |-> name, namespace |-> namespace,
                       kw |-> kw,
                       result |-> resolve(regs[r], name, namespace, kw)])
    /\ UNCHANGED <<regs, wvars, bvars, lvars, svars, pvars, fvars>>

Keywords == {Absent, Passed(TRUE)}

RegistryNext ==
    \/ RegisterDetection
    \/ RegisterClassification
    \/ \E r \in Registries, name \in LookupNames, namespace \in Namespaces,
          kw \in Keywords :
           Resolve(r, name, namespace, kw)

(***************************************************************************)
(*  ObjectDetectionData.from_coco, from_voc, from_via  (detection/data.py) *)
(***************************************************************************)

\* An argument left at its default None, and a string argument.
NoPath == [kind |-> "None"]
Str(s) == [kind |-> "str", s |-> s]

\* Python truth of an Optional[str]: None and "" are false.
Truthy(x) == x.kind = "str" /\ x.s # ""

\* A slip: the pair is built whenever the folder or the annotation file is
\* given.
SplitSourceIfEither(folder, ann_file) ==
    IF Truthy(folder) \/ Truthy(ann_file)
    THEN [kind |-> "pair", folder |-> folder, ann_file |-> ann_file]
    ELSE NoPath

\* (folder, ann_file) if folder else None
SplitSource(folder, ann_file) ==
    IF Truthy(folder)
    THEN [kind |-> "pair", folder |-> folder, ann_file |-> ann_file]
    ELSE NoPath

\* The keys of data_sources that ObjectDetectionPreprocess registers parsers
\* of annotation formats under.
ParserSources == {"coco", "via", "voc"}

\* cls.from_data_source(name, train, val, test, predict, ...): the call that
\* from_coco, from_voc and from_via make, each with its own name.
from_format(name, a) ==
    [data_source |-> name,
     train |-> SplitSource(a.train_folder, a.train_ann_file),
     val |-> SplitSource(a.val_folder, a.val_ann_file),
     test |-> SplitSource(a.test_folder, a.test_ann_file),
     predict |-> a.predict_folder]

from_coco(a) == from_format("coco", a)
from_voc(a) == from_format("voc", a)
from_via(a) == from_format("via", a)

\* The folders and annotation files a call may be given.
Folders == {NoPath, Str(""), Str("folder")}
AnnFiles == {NoPath, Str("annotations.json")}
FromArgs ==
    [train_folder : Folders, train_ann_file : AnnFiles,
     val_folder : Folders, val_ann_file : AnnFiles,
     test_folder : Folders, test_ann_file : AnnFiles,
     predict_folder : Folders]

NoCall == [method |-> "none"]

FromIdle == fcall = NoCall

FromCoco(a) ==
    /\ fcall = NoCall
    /\ fcall' = [method |-> "from_coco", args |-> a, call |-> from_coco(a)]
    /\ UNCHANGED <<wvars, bvars, lvars, svars, pvars, rvars>>

FromVoc(a) ==
    /\ fcall = NoCall
    /\ fcall' = [method |-> "from_voc", args |-> a, call |-> from_voc(a)]
    /\ UNCHANGED <<wvars, bvars, lvars, svars, pvars, rvars>>

FromVia(a) ==
    /\ fcall = NoCall
    /\ fcall' = [method |-> "from_via", args |-> a, call |-> from_via(a)]
    /\ UNCHANGED <<wvars, bvars, lvars, svars, pvars, rvars>>

FromNext ==
    \/ \E a \in FromArgs : FromCoco(a)
    \/ \E a \in FromArgs : FromVoc(a)
    \/ \E a \in FromArgs : FromVia(a)

(***************************************************************************)
(*                          Specifications                                 *)
(***************************************************************************)

BBoxIdle == bin = [x |-> 0, y |-> 0, w |-> 0, h |-> 0, img_w |-> 1, img_h |-> 1]
            /\ bout = NotRun

InitWrapper ==
    WrapperInit /\ BBoxIdle /\ LoadInit /\ SampleIdle /\ PathsIdle /\ RegistryIdle
    /\ FromIdle
InitBBox ==
    WrapperInit /\ BBoxInit /\ LoadInit /\ SampleIdle /\ PathsIdle /\ RegistryIdle
    /\ FromIdle
InitLoad ==
    WrapperInit /\ BBoxIdle /\ LoadInit /\ SampleIdle /\ PathsIdle /\ RegistryIdle
    /\ FromIdle
InitSample ==
    WrapperInit /\ BBoxIdle /\ LoadInit /\ SampleIdle /\ PathsIdle /\ RegistryIdle
    /\ FromIdle
InitPaths ==
    WrapperInit /\ BBoxIdle /\ LoadInit /\ SampleIdle /\ PathsIdle /\ RegistryIdle
    /\ FromIdle
InitRegistry ==
    WrapperInit /\ BBoxIdle /\ LoadInit /\ SampleIdle /\ PathsIdle /\ RegistryIdle
    /\ FromIdle
InitFrom ==
    WrapperInit /\ BBoxIdle /\ LoadInit /\ SampleIdle /\ PathsIdle /\ RegistryIdle
    /\ FromIdle

SpecWrapper == InitWrapper /\ [][WrapperNext]_vars
SpecBBox == InitBBox /\ [][BBoxNext]_vars
SpecLoad == InitLoad /\ [][LoadNext]_vars
SpecSample == InitSample /\ [][SampleNext]_vars
SpecPaths == InitPaths /\ [][PathsNext]_vars
SpecRegistry == InitRegistry /\ [][RegistryNext]_vars
SpecFrom == InitFrom /\ [][FromNext]_vars

(***************************************************************************)
(*                               Claims                                    *)
(***************************************************************************)

Finished == pc \in {"returned", "raised"}

\* Every invocation made so far behaved as the factory f prescribes.
FactoryIs(f(_)) == \A i \in 1..Len(calls) : calls[i].outcome = f(calls[i].pretrained)

Value(v) == [kind |-> "value", value |-> v]
Raised(e) == [kind |-> "error", error |-> e]

\* C1: for a factory that raises URLError exactly when pretrained=True, a call
\* of the wrapper with pretrained=True returns what the factory builds for
\* pretrained=False with the same other arguments, and emits exactly one
\* warning.
C1_FallbackReturnsUntrained ==
    (Finished /\ passed = Passed(TRUE) /\ FactoryIs(raise_error_if_pretrained))
        => /\ pc = "returned"
           /\ result = Value(fn_resnet_fpn(fargs, FALSE))
           /\ warnings = 1

C1_Witness ==
    /\ pc = "returned"
    /\ passed = Passed(TRUE)
    /\ FactoryIs(raise_error_if_pretrained)
    /\ Len(calls) = 2
    /\ fargs.model_name = "resnet50"

\* C2: when the first invocation raises an error that is not a URLError, the
\* call raises that same error, the factory is not invoked again and no
\* warning is emitted.
C2_OtherErrorsPropagate ==
    (Len(calls) >= 1 /\ calls[1].outcome \in OtherErrors)
        => /\ pc = "raised"
           /\ result = Raised(calls[1].outcome)
           /\ Len(calls) = 1
           /\ warnings = 0

C2_Witness ==
    /\ pc = "raised"
    /\ Len(calls) = 1
    /\ calls[1].outcome = "RuntimeError"
    /\ calls[1].pretrained = TRUE

\* C3: one call invokes the factory at most twice, the second time with
\* pretrained=False; when the second invocation raises, a URLError included,
\* the call raises that error with no further invocation and no warning.
C3_SingleFallback ==
    /\ Len(calls) <= 2
    /\ Len(calls) = 2 => calls[2].pretrained = FALSE
    /\ (Len(calls) = 2 /\ calls[2].outcome # "ok")
           => /\ pc = "raised"
              /\ result = Raised(calls[2].outcome)
              /\ warnings = 0

C3_Witness ==
    /\ pc = "raised"
    /\ Len(calls) = 2
    /\ calls[1].outcome \in URLErrors
    /\ calls[2].outcome = "URLError"

\* C4: the first invocation of the factory carries pretrained=True, the
\* factories' own default, when the caller passes no value, and the caller's
\* value when one is passed.
C4_FirstInvocationPretrained ==
    Len(calls) >= 1
        => calls[1].pretrained = (IF passed = Absent THEN FnDefault ELSE passed[1])

\* C5: for a normalized box inside the image, _reformat_bbox returns
\* [x*W, y*H, x*W + w*W, y*H + h*H] and the area (w*W)*(h*H).
C5_ReformatBBox ==
    (bout.ran /\ bin.x + bin.w <= GridDen /\ bin.y + bin.h <= GridDen)
        => /\ bout.bbox = << bin.x * bin.img_w,
                             bin.y * bin.img_h,
                             bin.x * bin.img_w + bin.w * bin.img_w,
                             bin.y * bin.img_h + bin.h * bin.img_h >>
           /\ bout.area = (bin.w * bin.img_w) * (bin.h * bin.img_h)

C5_Witness ==
    /\ bout.ran
    /\ bin.x > 0 /\ bin.y > 0 /\ bin.w > 0 /\ bin.h > 0
    /\ bin.x + bin.w <= GridDen /\ bin.y + bin.h <= GridDen
    /\ bin.img_w > bin.img_h

Returned == lpc = "loaded" /\ loaded.kind = "value"

Mismatched(item) ==
    \/ Len(item.labels) # Len(item.bboxes)
    \/ Len(item.iscrowds) # Len(item.bboxes)

\* C6: in every sample load_data returns, boxes, labels, area and iscrowd
\* have the same length.
C6_TargetLengthsEqual ==
    Returned =>
        \A k \in 1..Len(loaded.samples) :
            LET t == loaded.samples[k].target
            IN  /\ Len(t.boxes) = Len(t.labels)
                /\ Len(t.boxes) = Len(t.area)
                /\ Len(t.boxes) = Len(t.iscrowd)

C6_Witness ==
    /\ Returned
    /\ \E k \in 1..Len(loaded.samples) :
           /\ Mismatched(data.samples[k])
           /\ Len(loaded.samples[k].target.boxes) = 1
           /\ data.samples[k].iscrowds[1] = None
    /\ \E k \in 1..Len(loaded.samples) :
           /\ data.samples[k].labels = <<>>
           /\ data.samples[k].bboxes = <<>>
           /\ data.samples[k].iscrowds = <<>>

\* C7: load_data fails when a sample's box sequence differs in length from
\* its label sequence or its crowd-flag sequence.
C7_MismatchRaises ==
    (lpc = "loaded" /\ \E k \in 1..Len(data.samples) : Mismatched(data.samples[k]))
        => loaded.kind = "error"

\* C8: the k-th sample returned has image_id k and the k-th filepath as
\* INPUT, and there is one sample per sample of the collection.
C8_ImageIdSequential ==
    Returned =>
        /\ Len(loaded.samples) = Len(data.samples)
        /\ \A k \in 1..Len(loaded.samples) :
               /\ loaded.samples[k].target.image_id = k
               /\ loaded.samples[k].input = data.samples[k].filepath

C8_Witness ==
    /\ Returned
    /\ Len(loaded.samples) = 2
    /\ loaded.samples[1].input = "b.jpg"
    /\ loaded.samples[2].target.image_id = 2

\* C9: a missing crowd flag becomes 0 and a present one keeps its value, each
\* at the position of its detection.
C9_CrowdDefault ==
    Returned =>
        \A k \in 1..Len(loaded.samples) :
            \A j \in 1..Len(loaded.samples[k].target.iscrowd) :
                loaded.samples[k].target.iscrowd[j] =
                    (IF data.samples[k].iscrowds[j] = None THEN 0
                     ELSE data.samples[k].iscrowds[j])

C9_Witness ==
    /\ Returned
    /\ \E k \in 1..Len(loaded.samples) :
           /\ data.samples[k].iscrowds = <<None, 1>>
           /\ loaded.samples[k].target.iscrowd = <<0, 1>>

\* C10: every box of a sample load_data returns has xmin < xmax and
\* ymin < ymax.
C10_BoxesNonDegenerate ==
    Returned =>
        \A k \in 1..Len(loaded.samples) :
            \A j \in 1..Len(loaded.samples[k].target.boxes) :
                LET b == loaded.samples[k].target.boxes[j]
                IN  b[1] < b[3] /\ b[2] < b[4]

\* C11: a second call of load_sample, on the sample the first call returned,
\* gives a result identical to the first.
C11_LoadSampleIdempotent ==
    Len(returns) >= 2 => returns[2] = returns[1]

\* C12: load_sample of every data source replaces INPUT by the loaded image,
\* sets METADATA to the original path and the dimensions of the image, and
\* leaves TARGET unchanged.
C12_LoadSampleSetsMetadata ==
    stage = "loaded" =>
        /\ smp.input = ImageOf(orig.input.path, SizeOfFile(orig.input.path))
        /\ smp.target = orig.target
        /\ smp.metadata.kind = "metadata"
        /\ smp.metadata.filepath = orig.input
        /\ smp.metadata.size = <<smp.input.size[2], smp.input.size[1]>>

\* The class folders and image files of the tree, read off the tree itself.
ExistingDirs == {d \in DOMAIN DirNames : tree[d].exists}
ImageFilesOf(d) == {k \in tree[d].files : Files[k].ext \in IMG_EXTENSIONS}
PathOfFile(d, k) == [dir |-> DirNames[d], file |-> Files[k]]
RankOfDir(d) == Cardinality({e \in ExistingDirs : e < d})

\* C13: load_data on a root of class folders returns exactly one sample per
\* image file, each with TARGET the 0-based position of its folder among the
\* folders that exist, in sorted order of name; with two folders holding one
\* image each it returns 2 samples whose TARGET set is {0, 1}.
C13_OneSamplePerImage ==
    ploaded.kind = "value" =>
        LET s == ploaded.samples
        IN /\ \A d \in ExistingDirs : \A k \in ImageFilesOf(d) :
                  Cardinality({j \in DOMAIN s : s[j].input = PathOfFile(d, k)}) = 1
           /\ \A j \in DOMAIN s :
                  \E d \in ExistingDirs : \E k \in ImageFilesOf(d) :
                      /\ s[j].input = PathOfFile(d, k)
                      /\ s[j].target = RankOfDir(d)
           /\ ( /\ Cardinality(ExistingDirs) = 2
                /\ \A d \in ExistingDirs : Cardinality(ImageFilesOf(d)) = 1 )
              => /\ Len(s) = 2
                 /\ {s[j].target : j \in DOMAIN s} = {0, 1}

C13_Witness ==
    /\ ploaded.kind = "value"
    /\ ExistingDirs = {2, 3}
    /\ \A d \in ExistingDirs : Cardinality(ImageFilesOf(d)) = 1
    /\ \E d \in ExistingDirs : tree[d].files # ImageFilesOf(d)
    /\ Len(ploaded.samples) = 2

\* C14: load_data sets dataset.num_classes to the number of classes when a
\* dataset is passed and changes no dataset when none is passed; the samples
\* returned do not depend on the dataset.
C14_NumClassesSideChannel ==
    (lpc = "loaded" /\ loaded # [kind |-> "error", error |-> "ValueError"]) =>
        /\ dataset.given => dataset.num_classes = Len(data.classes)
        /\ ~dataset.given => dataset = NoDataset
        /\ loaded = ItemLoop(data.samples, data.classes, 1, FirstImgId, <<>>)

C14_Witness ==
    /\ Returned
    /\ dataset.given
    /\ dataset.num_classes = 2
    /\ Len(loaded.samples) = 2
    /\ Len(loaded.samples[2].target.labels) = 1

\* The sample load_sample returns for the sample of load_data.
LoadedOf(src, sample) == load_sample(src, sample).sample

\* The batch the preprocess makes of the sample of load_data.
BatchOf(sample, size) ==
    RunCollate(
        RunSequential(default_transforms(size).to_tensor_transform, 1,
            RunSequential(default_transforms(size).pre_tensor_transform, 1,
                LoadedOf("classification", sample))))

\* What the two registration loops register, read off the source.
RegisteredNames == {RESNET_MODELS[i] : i \in DOMAIN RESNET_MODELS}
RegisteredNamespace(r) ==
    IF r = "OBJ_DETECTION_BACKBONES" THEN DefaultNamespace ELSE "vision"
FactoryOf(r) ==
    IF r = "OBJ_DETECTION_BACKBONES" THEN "_fn_resnet_fpn" ELSE "_fn_resnet"
IsRegistered(l) ==
    /\ l.name \in RegisteredNames
    /\ l.namespace = RegisteredNamespace(l.registry)
SameArguments(l, m) ==
    /\ l.registry = m.registry
    /\ l.name = m.name
    /\ l.namespace = m.namespace
    /\ l.kw = m.kw

\* C15: resolving a name of RESNET_MODELS, in either registry and under the
\* namespace it was registered with, returns what the factory registered under
\* that name returns for the same keywords: the factory is bound to that very
\* name (not to the last name of the registration loop), and two lookups with
\* identical arguments give the same result.
C15_ResolveDispatch ==
    /\ \A i \in DOMAIN lookups :
           LET l == lookups[i]
           IN IsRegistered(l) =>
                  /\ l.result = call_factory(
                                    [func |-> FactoryOf(l.registry),
                                     model_name |-> l.name],
                                    l.kw)
                  /\ l.result.kind = "value" =>
                         l.result.value.backbone.model_name = l.name
    /\ \A i, j \in DOMAIN lookups :
           SameArguments(lookups[i], lookups[j]) =>
               lookups[i].result = lookups[j].result

C15_Witness ==
    /\ Len(lookups) = 2
    /\ IsRegistered(lookups[1])
    /\ SameArguments(lookups[1], lookups[2])
    /\ lookups[1].name = "resnet18"
    /\ lookups[1].registry = "IMAGE_CLASSIFIER_BACKBONES"
    /\ lookups[2].result.kind = "value"

\* Both registries hold what the import registered, in order.
AsImported ==
    \A r \in Registries :
        /\ Len(regs[r]) = Len(RESNET_MODELS)
        /\ \A k \in DOMAIN regs[r] :
               /\ regs[r][k].name = RESNET_MODELS[k]
               /\ regs[r][k].namespace = RegisteredNamespace(r)

\* C16: resolving a name that was never registered fails with LookupError,
\* returns no component, and leaves both registries as the import left them.
C16_UnregisteredLookupError ==
    \A i \in DOMAIN lookups :
        lookups[i].name \notin RegisteredNames =>
            /\ lookups[i].result = Raised("LookupError")
            /\ AsImported

C16_Witness ==
    /\ Len(lookups) = 2
    /\ lookups[1].name = "vgg16"
    /\ lookups[1].registry = "OBJ_DETECTION_BACKBONES"
    /\ lookups[2].name = "vgg16"
    /\ lookups[2].registry = "IMAGE_CLASSIFIER_BACKBONES"
    /\ lookups[2].result = Raised("LookupError")

\* C17: PREDS is set by predict_step alone: the samples of load_data and
\* load_sample and the batches of the training, validation and test steps hold
\* no PREDS, and predict_step returns the batch it got with PREDS added and
\* every other field as it was.
C17_PredsOnlyAfterPredict ==
    /\ orig.preds = Missing
    /\ \A i \in 1..Len(returns) :
           returns[i].kind = "value" => returns[i].sample.preds = Missing
    /\ smp.preds # Missing => stage = "predicted"
    /\ stage \in {"trained", "validated", "tested"} => smp = BatchOf(orig, image_size)
    /\ stage = "predicted" =>
           /\ smp.preds = ModelOutput(BatchOf(orig, image_size).input)
           /\ smp.input = BatchOf(orig, image_size).input
           /\ smp.target = BatchOf(orig, image_size).target
           /\ smp.metadata = BatchOf(orig, image_size).metadata

C17_Witness ==
    /\ stage = "predicted"
    /\ smp.preds # Missing
    /\ smp.target # Missing

HookNames == {"pre_tensor_transform", "to_tensor_transform", "collate"}

AfterPre == stage \in {"pre", "tensor"}
ResizedInput ==
    ImageOf(orig.input.path, <<image_size[2], image_size[1]>>)

\* C18: default_transforms(image_size) maps exactly the hooks
\* pre_tensor_transform, to_tensor_transform and collate; pre_tensor_transform
\* changes INPUT alone; to_tensor_transform converts INPUT first and TARGET
\* second, both always.
C18_DefaultTransforms ==
    /\ DOMAIN default_transforms(image_size) = HookNames
    /\ stage = "pre" =>
           /\ smp.input = ResizedInput
           /\ smp.target = orig.target
           /\ smp.metadata = Missing /\ smp.preds = Missing
           /\ trace = <<[hook |-> "pre_tensor_transform", key |-> "input",
                         fn |-> "Resize"]>>
    /\ stage = "tensor" =>
           /\ smp.input = TensorOf(ResizedInput)
           /\ smp.target = TensorOf(orig.target)
           /\ trace = <<[hook |-> "pre_tensor_transform", key |-> "input",
                         fn |-> "Resize"],
                        [hook |-> "to_tensor_transform", key |-> "input",
                         fn |-> "ToTensor"],
                        [hook |-> "to_tensor_transform", key |-> "target",
                         fn |-> "as_tensor"]>>

C18_Witness ==
    /\ stage = "tensor"
    /\ image_size = <<32, 48>>
    /\ smp.input.of.size = <<48, 32>>
    /\ orig.target = ClassTarget(1)

\* C19: a warning is emitted only once the fallback invocation with
\* pretrained=False has returned; a call whose first invocation succeeds
\* returns its result with no warning and no second invocation; no call warns
\* twice.
C19_WarningAfterFallback ==
    /\ warnings <= 1
    /\ warnings = 1 =>
           /\ Len(calls) = 2
           /\ calls[2].pretrained = FALSE
           /\ calls[2].outcome = "ok"
           /\ pc = "returned"
    /\ (Len(calls) >= 1 /\ calls[1].outcome = "ok") =>
           /\ pc = "returned"
           /\ result = Value(fn_resnet_fpn(fargs, calls[1].pretrained))
           /\ Len(calls) = 1
           /\ warnings = 0

C19_Witness ==
    /\ warnings = 1
    /\ calls[1].outcome = "HTTPError"

\* The detections the inner loop of load_data reaches in sample k.
Zipped(k) ==
    1..ZipLen(data.samples[k].labels, data.samples[k].bboxes,
              data.samples[k].iscrowds)

UnknownLabel ==
    \E k \in 1..Len(data.samples) : \E j \in Zipped(k) :
        ~HasClass(data.classes, data.samples[k].labels[j])

\* C20: every class index of a target lies in 0..num_classes-1 and is the
\* position of the label of its detection in the classes of the collection;
\* a detection whose label is not among the classes makes load_data fail.
C20_LabelsInRange ==
    /\ Returned =>
           \A k \in 1..Len(loaded.samples) :
               \A j \in 1..Len(loaded.samples[k].target.labels) :
                   LET idx == loaded.samples[k].target.labels[j]
                   IN  /\ idx \in 0..(Len(data.classes) - 1)
                       /\ dataset.given => idx \in 0..(dataset.num_classes - 1)
                       /\ data.classes[idx + 1] = data.samples[k].labels[j]
    /\ (lpc = "loaded" /\ UnknownLabel
            /\ loaded # [kind |-> "error", error |-> "ValueError"])
           => loaded = [kind |-> "error", error |-> "KeyError"]

C20_Witness ==
    /\ Returned
    /\ dataset.given
    /\ \E k \in 1..Len(loaded.samples) :
           loaded.samples[k].target.labels = <<1, 1>>

\* The data source name each of the three methods passes on.
SourceNameOf(method) ==
    IF method = "from_coco" THEN "coco"
    ELSE IF method = "from_voc" THEN "voc"
    ELSE "via"
Given(x) == x # NoPath /\ x # Str("")
PairOrNone(src, folder, ann_file) ==
    IF Given(folder)
    THEN src.kind = "pair" /\ src.folder = folder /\ src.ann_file = ann_file
    ELSE src = NoPath

\* C21: from_coco, from_voc and from_via call the data source named "coco",
\* "voc" and "via"; for each of the train, val and test splits they pass the
\* pair (folder, annotation file) when the folder is given and None when it is
\* absent or empty, whatever the annotation file; the predict source is the
\* predict folder alone.
C21_SplitSources ==
    fcall # NoCall =>
        LET a == fcall.args
            c == fcall.call
        IN /\ c.data_source = SourceNameOf(fcall.method)
           /\ c.data_source \in ParserSources
           /\ PairOrNone(c.train, a.train_folder, a.train_ann_file)
           /\ PairOrNone(c.val, a.val_folder, a.val_ann_file)
           /\ PairOrNone(c.test, a.test_folder, a.test_ann_file)
           /\ c.predict = a.predict_folder

C21_Witness ==
    /\ fcall # NoCall
    /\ fcall.method = "from_voc"
    /\ fcall.args.train_folder = Str("folder")
    /\ fcall.args.train_ann_file = Str("annotations.json")
    /\ fcall.args.val_folder = NoPath
    /\ fcall.args.val_ann_file = Str("annotations.json")
    /\ fcall.args.test_folder = Str("")
    /\ fcall.args.test_ann_file = Str("annotations.json")
    /\ fcall.args.predict_folder = Str("folder")
    /\ fcall.call.train.kind = "pair"
    /\ fcall.call.val = NoPath
    /\ fcall.call.test = NoPath

====
